---- MODULE Spec2Model ----
(***************************************************************************)
(* Model of custom_components/mysmartbike/webapi.py: the MySmartBikeWebApi *)
(* session client (login, get_device_list), its request executor          *)
(* (_request) and the device mapper (_build_device_list).                  *)
(*                                                                         *)
(* Encoding of Python / JSON values.  TLC cannot compare values of         *)
(* different kinds, so every value carries a tag t and a payload field     *)
(* whose name depends on the tag:                                          *)
(*   None / null   [t |-> "null"]                                          *)
(*   int           [t |-> "int", i |-> 200]                                *)
(*   str           [t |-> "str", s |-> "abc"]                              *)
(*   dict / object [t |-> "obj", o |-> [key |-> value, ...]]               *)
(*   list / array  [t |-> "arr", a |-> <<value, ...>>]                     *)
(*   datetime      [t |-> "datetime", Y, m, d, H, M, S]                    *)
(* A key that is absent from a dict is absent from DOMAIN of its o field.  *)
(* The text of a last_position_date is held as a sequence of characters,   *)
(* <<"2", "0", "2", "4", "-", ...>>, so that strptime can read it          *)
(* character by character; every other str is a TLA+ string.               *)
(***************************************************************************)
EXTENDS Integers, Sequences, FiniteSets, TLC

VARIABLES
    token,      \* self.token
    session,    \* self._session: "absent", "open" (the session the constructor
                \* was given), "host" (one taken from the host) or "closed"
    loginTask,  \* the login() coroutine: idle, or suspended in its await
    listTask,   \* the get_device_list() coroutine: idle, or suspended; in SpecMapper
                \* and SpecRequest the call under study
    done,       \* the call that completed last: the transport's answer, the outcome
    lastGood    \* history: data.token of the latest login() that returned True

vars == <<token, session, loginTask, listTask, done, lastGood>>

(***************************************************************************)
(* Bounds of the model.                                                    *)
(***************************************************************************)
MaxDevices == 2     \* longest data array of a list payload
MaxNodes == 2       \* longest object_tree of a device entry

(***************************************************************************)
(* Python values.                                                          *)
(***************************************************************************)
None == [t |-> "null"]
JInt(n) == [t |-> "int", i |-> n]
JStr(chars) == [t |-> "str", s |-> chars]
JObj(fields) == [t |-> "obj", o |-> fields]
JArr(items) == [t |-> "arr", a |-> items]
EmptyDict == JObj(<<>>)

\* bool(v): None, 0, "", {} and [] are falsy.
Truthy(v) ==
    CASE v.t = "null" -> FALSE
      [] v.t = "int" -> v.i # 0
      [] v.t = "str" -> v.s # ""
      [] v.t = "obj" -> DOMAIN v.o # {}
      [] v.t = "arr" -> Len(v.a) # 0
      [] OTHER -> TRUE

\* key in d, for a dict d
HasKey(d, key) == key \in DOMAIN d.o

\* d.get(key), for a dict d: None when the key is absent
Get(d, key) == IF key \in DOMAIN d.o THEN d.o[key] ELSE None

\* the dict d without one key (used to build the sample payloads)
Without(d, key) == JObj([k \in DOMAIN d.o \ {key} |-> d.o[k]])

\* the dict d with key set to v
With(d, key, v) == JObj([k \in DOMAIN d.o \cup {key} |-> IF k = key THEN v ELSE d.o[k]])

\* str(v) as used by an f-string: str(None) is "None"
PyStr(v) == IF v.t = "null" THEN "None" ELSE v.s

\* Outcomes of a call: it returns a value or raises an exception.
Raise(exc, arg) == [kind |-> "raise", exc |-> exc, arg |-> arg]
ReturnJson(v) == [kind |-> "return", json |-> v]
ReturnBool(b) == [kind |-> "return", bool |-> b]
ReturnMap(m) == [kind |-> "return", map |-> m]

(***************************************************************************)
(* datetime.strptime(text, "%Y-%m-%d %H:%M:%S").  The format compiles to   *)
(* the pattern  dddd - m{1,2} - d{1,2} <whitespace>+ H{1,2} : M{1,2} :     *)
(* S{1,2}  with each field limited to its range; the whole text must be    *)
(* consumed, and the fields must then form a datetime (year >= 1, day      *)
(* within the month, second <= 59).  A field need not be zero-padded.      *)
(***************************************************************************)
Digits == {"0", "1", "2", "3", "4", "5", "6", "7", "8", "9"}

DigitValue(c) ==
    CASE c = "0" -> 0 [] c = "1" -> 1 [] c = "2" -> 2 [] c = "3" -> 3
      [] c = "4" -> 4 [] c = "5" -> 5 [] c = "6" -> 6 [] c = "7" -> 7
      [] c = "8" -> 8 [] c = "9" -> 9

\* the character at position i, "" past the end
CharAt(text, i) == IF i >= 1 /\ i <= Len(text) THEN text[i] ELSE ""

RECURSIVE DigitRun(_, _)
\* how many digits follow from position i
DigitRun(text, i) ==
    IF CharAt(text, i) \in Digits THEN 1 + DigitRun(text, i + 1) ELSE 0

RECURSIVE SpaceRun(_, _)
\* how many blanks follow from position i
SpaceRun(text, i) ==
    IF CharAt(text, i) = " " THEN 1 + SpaceRun(text, i + 1) ELSE 0

RECURSIVE Number(_, _, _)
\* the value of the n digits that start at position i
Number(text, i, n) ==
    IF n = 0 THEN 0
    ELSE 10 * Number(text, i, n - 1) + DigitValue(text[i + n - 1])

IsLeap(y) == (y % 4 = 0 /\ y % 100 # 0) \/ y % 400 = 0

DaysInMonth(y, m) ==
    CASE m \in {4, 6, 9, 11} -> 30
      [] m = 2 -> IF IsLeap(y) THEN 29 ELSE 28
      [] OTHER -> 31

DateTime(Y, m, d, H, M, S) ==
    [t |-> "datetime", Y |-> Y, m |-> m, d |-> d, H |-> H, M |-> M, S |-> S]

\* datetime.strptime(v, "%Y-%m-%d %H:%M:%S") for a Python value v
strptime(v) ==
    IF v.t # "str" THEN Raise("TypeError", None)
    ELSE
      LET text == v.s
          pm == 6
          lm == DigitRun(text, pm)
          pd == pm + lm + 1
          ld == DigitRun(text, pd)
          pw == pd + ld
          lw == SpaceRun(text, pw)
          pH == pw + lw
          lH == DigitRun(text, pH)
          pM == pH + lH + 1
          lM == DigitRun(text, pM)
          pS == pM + lM + 1
          lS == DigitRun(text, pS)
          Y == Number(text, 1, 4)
          m == Number(text, pm, lm)
          d == Number(text, pd, ld)
          H == Number(text, pH, lH)
          M == Number(text, pM, lM)
          S == Number(text, pS, lS)
          matched ==
              /\ DigitRun(text, 1) = 4 /\ CharAt(text, 5) = "-"
              /\ lm \in 1..2 /\ m \in 1..12 /\ CharAt(text, pm + lm) = "-"
              /\ ld \in 1..2 /\ d \in 1..31
              /\ lw >= 1
              /\ lH \in 1..2 /\ H \in 0..23 /\ CharAt(text, pH + lH) = ":"
              /\ lM \in 1..2 /\ M \in 0..59 /\ CharAt(text, pM + lM) = ":"
              /\ lS \in 1..2 /\ S \in 0..61
              /\ pS + lS = Len(text) + 1
      IN  IF ~matched THEN Raise("ValueError", v)
          ELSE IF Y < 1 \/ d > DaysInMonth(Y, m) \/ S > 59 THEN Raise("ValueError", v)
          ELSE [kind |-> "return", datetime |-> DateTime(Y, m, d, H, M, S)]

(***************************************************************************)
(* The device mapper, _build_device_list.                                  *)
(***************************************************************************)

\* MySmartBikeDevice(...): the device record, its fields in the order of the
\* constructor call
MySmartBikeDevice(serial, odometry, brand, model, longitude, latitude, last_position_date, state_of_charge, remaining_capacity) ==
    [serial |-> serial, odometry |-> odometry, brand |-> brand, model |-> model,
     longitude |-> longitude, latitude |-> latitude,
     last_position_date |-> last_position_date,
     state_of_charge |-> state_of_charge,
     remaining_capacity |-> remaining_capacity]

\* a scan that keeps the first value it finds for a key
ScanNode_KeepFirst(obj, found) ==
    [state_of_charge |->
        IF HasKey(obj, "state_of_charge") /\ found.state_of_charge = None
        THEN obj.o["state_of_charge"]
        ELSE found.state_of_charge,
     remaining_capacity |->
        IF HasKey(obj, "remaining_capacity") /\ found.remaining_capacity = None
        THEN obj.o["remaining_capacity"]
        ELSE found.remaining_capacity]

\* One pass of the loop body over an object_tree node: each key is looked up
\* on its own and overwrites the value kept so far.
ScanNode(obj, found) ==
    [state_of_charge |->
        IF HasKey(obj, "state_of_charge") THEN obj.o["state_of_charge"]
        ELSE found.state_of_charge,
     remaining_capacity |->
        IF HasKey(obj, "remaining_capacity") THEN obj.o["remaining_capacity"]
        ELSE found.remaining_capacity]

RECURSIVE ScanObjectTree(_, _, _)
\* for obj in rbike["object_tree"]: ..., from node k on
ScanObjectTree(nodes, k, found) ==
    IF k > Len(nodes) THEN found
    ELSE ScanObjectTree(nodes, k + 1, ScanNode(nodes[k], found))

\* the locals state_of_charge and remaining_capacity before the first rbike
NothingFound == [state_of_charge |-> None, remaining_capacity |-> None]

\* state_of_charge = None; remaining_capacity = None: the first statements of
\* the loop body, whatever the locals held after the rbike before
ResetFound(carried) == NothingFound

\* The keys the loop body reads with [...]: a missing one raises KeyError.
\* object_tree is read first, then the constructor's arguments in order.
MissingKey(rbike) ==
    \/ ~HasKey(rbike, "object_tree")
    \/ ~HasKey(rbike, "serial")
    \/ ~HasKey(rbike, "odometry")
    \/ ~HasKey(rbike, "object_model")
    \/ ~HasKey(rbike.o["object_model"], "brand")
    \/ ~HasKey(rbike.o["object_model"].o["brand"], "alias")

\* a loop body that hands latitude and longitude to the constructor in each
\* other's place
BuildDevice_SwappedPosition(rbike, carried) ==
    IF MissingKey(rbike) THEN Raise("KeyError", None)
    ELSE
      LET found == ScanObjectTree(rbike.o["object_tree"].a, 1, ResetFound(carried))
          parsed == strptime(Get(rbike, "last_position_date"))
      IN  IF parsed.kind = "raise" THEN parsed
          ELSE [kind |-> "return",
                found |-> found,
                device |-> MySmartBikeDevice(
                    rbike.o["serial"],
                    rbike.o["odometry"],
                    rbike.o["object_model"].o["brand"].o["alias"],
                    Get(Get(rbike, "object_model"), "model_name"),
                    Get(rbike, "latitude"),
                    Get(rbike, "longitude"),
                    parsed.datetime,
                    found.state_of_charge,
                    found.remaining_capacity)]

\* The loop body for one rbike, entered with the locals as the rbike before
\* left them: the device built from it and the locals it leaves, or the
\* exception it raises.
BuildDevice(rbike, carried) ==
    IF MissingKey(rbike) THEN Raise("KeyError", None)
    ELSE
      LET found == ScanObjectTree(rbike.o["object_tree"].a, 1, ResetFound(carried))
          parsed == strptime(Get(rbike, "last_position_date"))
      IN  IF parsed.kind = "raise" THEN parsed
          ELSE [kind |-> "return",
                found |-> found,
                device |-> MySmartBikeDevice(
                    rbike.o["serial"],
                    rbike.o["odometry"],
                    rbike.o["object_model"].o["brand"].o["alias"],
                    Get(Get(rbike, "object_model"), "model_name"),
                    Get(rbike, "longitude"),
                    Get(rbike, "latitude"),
                    parsed.datetime,
                    found.state_of_charge,
                    found.remaining_capacity)]

\* a store that keeps the record a serial already has
StoreDevice_KeepFirst(root_objects, root_object) ==
    [key \in DOMAIN root_objects \cup {root_object.serial} |->
        IF key \in DOMAIN root_objects THEN root_objects[key] ELSE root_object]

\* root_objects[root_object.serial] = root_object
StoreDevice(root_objects, root_object) ==
    [key \in DOMAIN root_objects \cup {root_object.serial} |->
        IF key = root_object.serial THEN root_object ELSE root_objects[key]]

RECURSIVE BuildFrom_SkipFailed(_, _, _, _)
\* a loop that isolates each rbike: one that raises is left out
BuildFrom_SkipFailed(entries, k, root_objects, carried) ==
    IF k > Len(entries) THEN ReturnMap(root_objects)
    ELSE
      LET built == BuildDevice(entries[k], carried)
      IN  IF built.kind = "raise"
          THEN BuildFrom_SkipFailed(entries, k + 1, root_objects, carried)
          ELSE BuildFrom_SkipFailed(entries, k + 1, StoreDevice(root_objects, built.device), built.found)

RECURSIVE BuildFrom(_, _, _, _)
\* for rbike in data["data"]: ..., from entry k on; the first exception ends
\* the loop and the call
BuildFrom(entries, k, root_objects, carried) ==
    IF k > Len(entries) THEN ReturnMap(root_objects)
    ELSE
      LET built == BuildDevice(entries[k], carried)
      IN  IF built.kind = "raise" THEN built
          ELSE BuildFrom(entries, k + 1, StoreDevice(root_objects, built.device), built.found)

\* _build_device_list(data)
_build_device_list(data) ==
    IF ~HasKey(data, "data") THEN Raise("KeyError", None)
    ELSE IF data.o["data"].t # "arr" THEN Raise("TypeError", None)
    ELSE BuildFrom(data.o["data"].a, 1, <<>>, NothingFound)

(***************************************************************************)
(* Sample payloads: the inputs the calls are run on.                       *)
(***************************************************************************)
DateGood == JStr(<<"2", "0", "2", "4", "-", "0", "1", "-", "0", "1", " ", "1", "0", ":", "0", "0", ":", "0", "0">>)       \* "2024-01-01 10:00:00"
DateUnpadded == JStr(<<"2", "0", "2", "4", "-", "1", "-", "1", " ", "9", ":", "5", ":", "7">>)   \* "2024-1-1 9:5:7"
DateSlashes == JStr(<<"0", "1", "/", "0", "1", "/", "2", "0", "2", "4">>)    \* "01/01/2024"
DateFeb30 == JStr(<<"2", "0", "2", "4", "-", "0", "2", "-", "3", "0", " ", "1", "0", ":", "0", "0", ":", "0", "0">>)      \* "2024-02-30 10:00:00"
DateNoTime == JStr(<<"2", "0", "2", "4", "-", "0", "1", "-", "0", "1">>)     \* "2024-01-01"

\* the object_tree nodes
NodeSoc == JObj([state_of_charge |-> JInt(80)])
NodeCap == JObj([remaining_capacity |-> JInt(10)])
NodeBoth == JObj([state_of_charge |-> JInt(50), remaining_capacity |-> JInt(20)])
Nodes == {NodeSoc, NodeCap, NodeBoth}

\* the object_trees of at most n nodes
Trees(n) == UNION {[1..k -> Nodes] : k \in 0..n}

\* serial numbers "BK1", "BK2", ...
Serial(n) == "BK" \o (CHOOSE c \in Digits : DigitValue(c) = n)

\* a well-formed device entry
Entry(serial, date, tree) ==
    JObj([serial |-> JStr(serial),
          odometry |-> JInt(120),
          object_model |-> JObj([brand |-> JObj([alias |-> JStr("Acme")]),
                                 model_name |-> JStr("X1")]),
          longitude |-> JInt(7),
          latitude |-> JInt(50),
          last_position_date |-> date,
          object_tree |-> JArr(tree)])

\* the entries every key of which is present and whose date is in the
\* documented format: the first serial with every tree, the other serials
\* with an empty tree and with a tree of one node
GoodEntries ==
    {Entry(Serial(1), DateGood, tree) : tree \in Trees(MaxNodes)}
    \cup {Entry(Serial(n), DateGood, tree) : n \in 2..MaxDevices, tree \in {<<>>, <<NodeBoth>>}}

\* the entry the deviating entries are derived from
BaseEntry == Entry(Serial(2), DateGood, <<NodeSoc>>)

\* the base entry less one of its keys
LackingEntries ==
    {Without(BaseEntry, key) : key \in DOMAIN BaseEntry.o}
    \cup {With(BaseEntry, "object_model", Without(BaseEntry.o["object_model"], key)) :
            key \in {"brand", "model_name"}}
    \cup {With(BaseEntry, "object_model", JObj([brand |-> EmptyDict, model_name |-> JStr("X1")]))}

\* the base entry with another last_position_date
MisdatedEntries ==
    {With(BaseEntry, "last_position_date", date) :
        date \in {DateUnpadded, DateSlashes, DateFeb30, DateNoTime, None}}

Entries == GoodEntries \cup LackingEntries \cup MisdatedEntries

\* the entries the device mapper is run on by itself: the well-formed ones,
\* and the base entry less a key read with get(), less its serial, and with
\* a date without padding and one with slashes
MapperEntries ==
    GoodEntries
    \cup {Without(BaseEntry, key) : key \in {"longitude", "latitude", "serial"}}
    \cup {With(BaseEntry, "object_model", Without(BaseEntry.o["object_model"], "model_name"))}
    \cup {With(BaseEntry, "last_position_date", date) : date \in {DateUnpadded, DateSlashes}}

\* the list payload with the given data array
Payload(entries) == JObj([status |-> JInt(200), data |-> JArr(entries)])

(***************************************************************************)
(* The request executor, _request.  It runs in two steps: up to the await  *)
(* of the transport (the request is built and sent), and from the          *)
(* transport's answer on (the answer is classified).                       *)
(***************************************************************************)

\* the protocol headers of the update() call; the values that const.py
\* holds are kept by name
FixedHeaders ==
    ("Accept" :> "application/json") @@ ("User-Agent" :> "API_USER_AGENT")
    @@ ("Accept-Language" :> "de-DE") @@ ("X-Theme" :> "API_X_THEME")
    @@ ("X-App" :> "API_X_APP") @@ ("X-Platform" :> "API_X_PLATFORM")
    @@ ("X-Version" :> "API_X_VERSION")

\* an update that keeps the value a key already has
Update_KeepExisting(d, e) == [k \in DOMAIN d \cup DOMAIN e |-> IF k \in DOMAIN d THEN d[k] ELSE e[k]]

\* d.update(e): the keys of e overwrite those of d
Update(d, e) == [k \in DOMAIN d \cup DOMAIN e |-> IF k \in DOMAIN e THEN e[k] ELSE d[k]]

\* d.setdefault(key, v) on the keyword arguments
SetDefault(d, key, v) == IF key \in DOMAIN d THEN d ELSE d @@ (key :> v)

\* The request _request sends: the keyword arguments get empty headers and
\* the system proxy when they have none, and the fixed headers are written
\* over the caller's.
BuildRequest(method, endpoint, kwargs) ==
    LET withHeaders == SetDefault(kwargs, "headers", <<>>)
        withProxy == SetDefault(withHeaders, "proxy", "SYSTEM_PROXY")
        merged == [withProxy EXCEPT !["headers"] = Update(@, FixedHeaders)]
    IN  [method |-> method, url |-> "API_BASE_URI" \o endpoint, kwargs |-> merged]

\* a test that forgets the closed session
AcquireSession_OnlyWhenAbsent(held) == IF held = "absent" THEN "host" ELSE held

\* if not self._session or self._session.closed: take the host's session
AcquireSession(held) == IF held \in {"absent", "closed"} THEN "host" ELSE held

\* What the transport can answer: an HTTP response (its status code, and its
\* body as decoded JSON or as text that is no JSON), a connection-level
\* failure (ClientError), or any other exception (such as a timeout).
Undecodable == [t |-> "undecodable"]

HttpResponse(code, body) == [kind |-> "response", code |-> code, body |-> body]

\* resp.raise_for_status() raises ClientResponseError: it does for a status
\* of 400 or above, and lets 1xx, 2xx and 3xx pass
IsHttpError(net) == net.code >= 400

\* The classes an except clause can name to catch the exception exc: its own
\* class and the classes that one derives from.  ClientResponseError derives
\* from ClientError.
Bases(exc) ==
    CASE exc = "ClientResponseError" -> {"ClientResponseError", "ClientError", "Exception"}
      [] exc = "ClientError" -> {"ClientError", "Exception"}
      [] OTHER -> {exc, "Exception"}

\* The body of the try statement on the transport's answer net: the decoded
\* body it returns or the exception it raises.  Only the branch without a
\* "url" argument calls raise_for_status.
TryBlock(request, net) ==
    CASE net.kind = "ClientError" -> Raise("ClientError", None)
      [] net.kind = "Exception" -> Raise("TimeoutError", None)
      [] "url" \notin DOMAIN request.kwargs /\ IsHttpError(net) -> Raise("ClientResponseError", None)
      [] net.body = Undecodable -> Raise("JSONDecodeError", None)
      [] OTHER -> ReturnJson(net.body)

\* except clauses that name the general class before the specific one
ExceptClauses_GeneralFirst == <<"ClientError", "ClientResponseError", "Exception">>

\* the except clauses of the try statement, in the order they are written
ExceptClauses == <<"ClientResponseError", "ClientError", "Exception">>

\* handlers that never look at ignore_errors
Handler_FlagUnused(clause, ignore_errors) ==
    CASE clause = "ClientResponseError" -> Raise("MySmartBikeAuthException", None)
      [] clause = "ClientError" -> Raise("ClientError", None)
      [] OTHER -> ReturnJson(None)

\* handlers whose last one raises again unless errors are ignored
Handler_ReraiseUnexpected(clause, ignore_errors) ==
    CASE clause = "ClientResponseError" ->
            IF ~ignore_errors THEN Raise("MySmartBikeAuthException", None)
            ELSE ReturnJson(None)
      [] clause = "ClientError" ->
            IF ~ignore_errors THEN Raise("ClientError", None)
            ELSE ReturnJson(None)
      [] OTHER ->
            IF ~ignore_errors THEN Raise("Exception", None)
            ELSE ReturnJson(None)

\* The body of one except clause; the last one only logs, and the function
\* ends without a return statement.
Handler(clause, ignore_errors) ==
    CASE clause = "ClientResponseError" ->
            IF ~ignore_errors THEN Raise("MySmartBikeAuthException", None)
            ELSE ReturnJson(None)
      [] clause = "ClientError" ->
            IF ~ignore_errors THEN Raise("ClientError", None)
            ELSE ReturnJson(None)
      [] OTHER -> ReturnJson(None)

\* The try statement of _request on the transport's answer net: an exception
\* of the try block goes to the first clause that names one of its classes.
Classify(request, ignore_errors, net) ==
    LET tried == TryBlock(request, net)
    IN  IF tried.kind # "raise" THEN tried
        ELSE
          LET catching == {i \in DOMAIN ExceptClauses : ExceptClauses[i] \in Bases(tried.exc)}
              first == CHOOSE i \in catching : \A j \in catching : i <= j
          IN  Handler(ExceptClauses[first], ignore_errors)

(***************************************************************************)
(* The session client: login and get_device_list.                          *)
(***************************************************************************)
Username == "rider"
Password == "secret"

\* the arguments of login's call of _request
LoginKwargs ==
    ("data" :> ("password=" \o Password \o "&contents_id=&email=" \o Username))
    @@ ("headers" :> ("Content-Type" :> "application/x-www-form-urlencoded; charset=utf-8"))

\* the arguments of get_device_list's call of _request, for the stored token
ListKwargs(stored) ==
    "headers" :> (("Content-Type" :> "application/json")
                  @@ ("Authorization" :> ("Bearer " \o PyStr(stored))))

\* a presence test that forgets the status: any non-empty response passes
StatusSet_AnyResponse(response) == Truthy(response)

\* if login_response and login_response.get("status")
StatusSet(response) == Truthy(response) /\ Truthy(Get(response, "status"))

\* a success test that forgets the comparison with 200
StatusOk_AnyStatus(response) == StatusSet(response)

\* ... and login_response.get("status") == 200
StatusOk(response) == StatusSet(response) /\ Get(response, "status") = JInt(200)

\* a login() that forgets the stored token whenever it does not succeed
LoginFinish_ClearOnFailure(answer, stored) ==
    IF answer.kind = "raise" THEN [out |-> answer, token |-> JStr("")]
    ELSE
      LET login_response == answer.json
      IN  IF StatusOk(login_response)
          THEN IF Get(login_response, "data").t # "obj"
               THEN [out |-> Raise("AttributeError", None), token |-> JStr("")]
               ELSE [out |-> ReturnBool(TRUE),
                     token |-> Get(Get(login_response, "data"), "token")]
          ELSE IF StatusSet(login_response)
               THEN [out |-> Raise("MySmartBikeAuthException", login_response),
                     token |-> JStr("")]
               ELSE [out |-> ReturnBool(FALSE), token |-> JStr("")]

\* login() from the answer of _request on: its outcome and the token it
\* leaves stored
LoginFinish(answer, stored) ==
    IF answer.kind = "raise" THEN [out |-> answer, token |-> stored]
    ELSE
      LET login_response == answer.json
      IN  IF StatusOk(login_response)
          THEN IF Get(login_response, "data").t # "obj"
               THEN [out |-> Raise("AttributeError", None), token |-> stored]
               ELSE [out |-> ReturnBool(TRUE),
                     token |-> Get(Get(login_response, "data"), "token")]
          ELSE IF StatusSet(login_response)
               THEN [out |-> Raise("MySmartBikeAuthException", login_response),
                     token |-> stored]
               ELSE [out |-> ReturnBool(FALSE), token |-> stored]

\* get_device_list() from the answer of _request on: its outcome, and
\* whether it called the device mapper
ListFinish(answer) ==
    IF answer.kind = "raise" THEN [out |-> answer, mapped |-> FALSE]
    ELSE IF StatusOk(answer.json)
         THEN [out |-> _build_device_list(answer.json), mapped |-> TRUE]
         ELSE [out |-> ReturnMap(<<>>), mapped |-> FALSE]

(***************************************************************************)
(* What the vendor's server and the transport can answer.                  *)
(***************************************************************************)
Statuses == {JInt(200), JInt(0), JInt(401), None}

TokenObjects ==
    {EmptyDict, JObj([token |-> None])}
    \cup {JObj([token |-> JStr(text)]) : text \in {"", "tok1", "tok2"}}

\* stands for a key that the object does not have
Absent == [t |-> "absent"]

\* a JSON object with the given status and data, each possibly absent
Body(status, data) ==
    LET s == IF status = Absent THEN <<>> ELSE ("status" :> status)
        d == IF data = Absent THEN <<>> ELSE ("data" :> data)
    IN  JObj(s @@ d)

\* the decoded bodies of a login response: null, or an object with or
\* without status, with or without data, with or without data.token
LoginBodies ==
    {None}
    \cup {Body(Absent, Absent)}
    \cup {Body(status, Absent) : status \in Statuses}
    \cup {Body(Absent, data) : data \in TokenObjects \cup {None}}
    \cup {Body(status, data) : status \in Statuses, data \in TokenObjects \cup {None}}

\* the data arrays of the list responses: every entry of at most one node
\* alone, and after a well-formed entry; every deviating entry before one
ListData ==
    LET first == Entry(Serial(1), DateGood, <<NodeCap>>)
        small == {Entry(Serial(n), DateGood, tree) : n \in 1..2, tree \in Trees(1)}
        deviating == LackingEntries \cup MisdatedEntries
    IN  {<<>>}
        \cup {<<e>> : e \in small \cup deviating}
        \cup {<<first, e>> : e \in small \cup deviating}
        \cup {<<e, first>> : e \in deviating}

\* the decoded bodies of a list response
ListBodies ==
    {None, Body(Absent, Absent), Body(JInt(200), Absent), Body(JInt(200), None)}
    \cup {Body(JInt(200), JArr(entries)) : entries \in ListData}
    \cup {Body(status, JArr(entries)) :
            status \in (Statuses \ {JInt(200)}) \cup {Absent},
            entries \in {<<>>, <<Entry(Serial(1), DateGood, <<NodeCap>>)>>}}

\* the answers of the transport to a request whose response bodies are bodies;
\* a 304 has an empty body, which resp.json() decodes to None
Answers(bodies) ==
    {HttpResponse(200, body) : body \in bodies \cup {Undecodable}}
    \cup {HttpResponse(401, Body(JInt(401), Absent))}
    \cup {HttpResponse(304, None)}
    \cup {[kind |-> "ClientError"], [kind |-> "Exception"]}

\* the answers to the login request and to the list request
LoginAnswers == Answers(LoginBodies)
ListAnswers == Answers(ListBodies)

(***************************************************************************)
(* The state machine.                                                      *)
(***************************************************************************)
Idle == [pc |-> "idle"]

\* a coroutine suspended in _request, with the requests it has sent
Awaiting(requests) == [pc |-> "await", requests |-> requests]

NoCall == [op |-> "none"]

Init ==
    /\ token = JStr("")
    /\ session \in {"absent", "open", "closed"}
    /\ loginTask = Idle
    /\ listTask = Idle
    /\ done = NoCall
    /\ lastGood = [set |-> FALSE]

\* login() is called and runs up to the await of the transport
login_call ==
    /\ loginTask.pc = "idle"
    /\ loginTask' = Awaiting(<<BuildRequest("post", "/api/v1/users/login", LoginKwargs)>>)
    /\ session' = AcquireSession(session)
    /\ UNCHANGED <<token, listTask, done, lastGood>>

\* a login() whose token write reaches the list request that waits for its
\* answer
login_resume_rewrites_sent ==
    /\ loginTask.pc = "await"
    /\ \E net \in LoginAnswers :
         LET request == loginTask.requests[Len(loginTask.requests)]
             finish == LoginFinish(Classify(request, FALSE, net), token)
         IN  /\ token' = finish.token
             /\ done' = [op |-> "login", net |-> net, out |-> finish.out]
             /\ lastGood' = IF finish.out = ReturnBool(TRUE)
                            THEN [set |-> TRUE, token |-> finish.token]
                            ELSE lastGood
             /\ listTask' = IF listTask.pc = "await"
                            THEN Awaiting(<<BuildRequest("get", "/api/v1/objects/me?limit=5",
                                                         ListKwargs(finish.token))>>)
                            ELSE listTask
    /\ loginTask' = Idle
    /\ UNCHANGED session

\* the transport answers and login() runs to its end
login_resume ==
    /\ loginTask.pc = "await"
    /\ \E net \in LoginAnswers :
         LET request == loginTask.requests[Len(loginTask.requests)]
             finish == LoginFinish(Classify(request, FALSE, net), token)
         IN  /\ token' = finish.token
             /\ done' = [op |-> "login", net |-> net, out |-> finish.out]
             /\ lastGood' = IF finish.out = ReturnBool(TRUE)
                            THEN [set |-> TRUE, token |-> finish.token]
                            ELSE lastGood
    /\ loginTask' = Idle
    /\ UNCHANGED <<session, listTask>>

\* a get_device_list() that logs in first when no token is stored
get_device_list_call_relogin ==
    /\ listTask.pc = "idle"
    /\ listTask' = Awaiting(<<BuildRequest("get", "/api/v1/objects/me?limit=5", ListKwargs(token))>>)
    /\ loginTask' = IF token = JStr("") /\ loginTask.pc = "idle"
                    THEN Awaiting(<<BuildRequest("post", "/api/v1/users/login", LoginKwargs)>>)
                    ELSE loginTask
    /\ session' = AcquireSession(session)
    /\ UNCHANGED <<token, done, lastGood>>

\* get_device_list() is called and runs up to the await of the transport
get_device_list_call ==
    /\ listTask.pc = "idle"
    /\ listTask' = Awaiting(<<BuildRequest("get", "/api/v1/objects/me?limit=5", ListKwargs(token))>>)
    /\ session' = AcquireSession(session)
    /\ UNCHANGED <<token, loginTask, done, lastGood>>

\* the transport answers and get_device_list() runs to its end
get_device_list_resume ==
    /\ listTask.pc = "await"
    /\ \E net \in ListAnswers :
         LET request == listTask.requests[Len(listTask.requests)]
             finish == ListFinish(Classify(request, FALSE, net))
         IN  done' = [op |-> "get_device_list", net |-> net, out |-> finish.out,
                      mapped |-> finish.mapped]
    /\ listTask' = Idle
    /\ UNCHANGED <<token, session, loginTask, lastGood>>

\* the host environment closes the session it owns
host_closes_session ==
    /\ session \in {"open", "host"}
    /\ session' = "closed"
    /\ UNCHANGED <<token, loginTask, listTask, done, lastGood>>

Next ==
    \/ login_call
    \/ login_resume
    \/ get_device_list_call
    \/ get_device_list_resume
    \/ host_closes_session

Spec == Init /\ [][Next]_vars

(***************************************************************************)
(* The device mapper on its own: it is run on every payload of at most     *)
(* MaxDevices entries.                                                     *)
(***************************************************************************)
InitMapper ==
    /\ token = JStr("")
    /\ session = "open"
    /\ loginTask = Idle
    /\ \E n \in 0..MaxDevices : \E entries \in [1..n -> MapperEntries] :
         listTask = [pc |-> "build", data |-> Payload(entries)]
    /\ done = NoCall
    /\ lastGood = [set |-> FALSE]

\* _build_device_list(data) runs from its first line to its last
build_device_list ==
    /\ listTask.pc = "build"
    /\ done' = [op |-> "_build_device_list", data |-> listTask.data,
                out |-> _build_device_list(listTask.data)]
    /\ listTask' = Idle
    /\ UNCHANGED <<token, session, loginTask, lastGood>>

NextMapper == build_device_list

SpecMapper == InitMapper /\ [][NextMapper]_vars

(***************************************************************************)
(* The request executor on its own: _request is called with every set of  *)
(* caller headers over CallerHeaderKeys (or with no headers argument),     *)
(* with and without a "url" argument, a "proxy" argument and              *)
(* ignore_errors, and the transport answers with one of RequestAnswers.    *)
(***************************************************************************)

\* header keys a caller may supply: three of the fixed ones and two others
CallerHeaderKeys == {"Accept", "User-Agent", "X-Version", "Content-Type", "Authorization"}

\* the value a caller gives such a header; none is the fixed value
CallerValue(key) ==
    CASE key = "Accept" -> "text/html"
      [] key = "User-Agent" -> "curl"
      [] key = "X-Version" -> "0"
      [] key = "Content-Type" -> "application/json"
      [] OTHER -> "Bearer tok1"

\* the keyword arguments of a call of _request
CallerKwargs ==
    LET headers == {<<>>} \cup {"headers" :> [k \in keys |-> CallerValue(k)] :
                                    keys \in SUBSET CallerHeaderKeys}
        url == {<<>>, "url" :> "https://other.example/objects"}
        proxy == {<<>>, "proxy" :> "http://proxy.example:3128"}
    IN  {h @@ u @@ x : h \in headers, u \in url, x \in proxy}

\* what the transport answers to such a request
RequestAnswers ==
    {HttpResponse(200, Body(JInt(200), Absent)), HttpResponse(200, Undecodable),
     HttpResponse(304, None), HttpResponse(401, Body(JInt(401), Absent)),
     HttpResponse(500, Undecodable),
     [kind |-> "ClientError"], [kind |-> "Exception"]}

InitRequest ==
    /\ token = JStr("")
    /\ session \in {"absent", "open", "closed"}
    /\ loginTask = Idle
    /\ \E kwargs \in CallerKwargs : \E ignore_errors \in BOOLEAN :
         listTask = [pc |-> "call", method |-> "get",
                     endpoint |-> "/api/v1/objects/me?limit=5",
                     ignore_errors |-> ignore_errors, kwargs |-> kwargs]
    /\ done = NoCall
    /\ lastGood = [set |-> FALSE]

\* _request runs from its first line to the await of the transport
request_call ==
    /\ listTask.pc = "call"
    /\ listTask' = [pc |-> "sent", call |-> listTask,
                    requests |-> <<BuildRequest(listTask.method, listTask.endpoint,
                                                listTask.kwargs)>>]
    /\ session' = AcquireSession(session)
    /\ UNCHANGED <<token, loginTask, done, lastGood>>

\* the transport answers and _request runs to its end
request_resume ==
    /\ listTask.pc = "sent"
    /\ \E net \in RequestAnswers :
         LET request == listTask.requests[Len(listTask.requests)]
         IN  done' = [op |-> "_request", call |-> listTask.call, request |-> request,
                      net |-> net,
                      out |-> Classify(request, listTask.call.ignore_errors, net)]
    /\ listTask' = Idle
    /\ UNCHANGED <<token, session, loginTask, lastGood>>

NextRequest ==
    \/ request_call
    \/ request_resume

SpecRequest == InitRequest /\ [][NextRequest]_vars

(***************************************************************************)
(* Vocabulary of the properties: what the transport's answer net amounts   *)
(* to, said without the operators that model the code.                     *)
(***************************************************************************)

\* the request executor hands the caller a decoded JSON object
DecodedObject(net) ==
    /\ net.kind = "response"
    /\ net.code < 400
    /\ net.body.t = "obj"

\* the request executor hands the caller no response (None)
NoResponse(net) ==
    \/ net.kind = "Exception"
    \/ net.kind = "response" /\ net.code < 400 /\ net.body \in {None, Undecodable}

\* the request ended in an HTTP non-2xx status or in a transport failure
OrdinaryFailure(net) ==
    \/ net.kind = "ClientError"
    \/ net.kind = "response" /\ net.code >= 400

\* the decoded object has a status field
HasStatus(body) == "status" \in DOMAIN body.o

\* the decoded object has a status field, and it is 200
Status200(body) == HasStatus(body) /\ body.o["status"] = JInt(200)

\* the decoded object has a data object with a token field
HasDataToken(body) ==
    /\ "data" \in DOMAIN body.o
    /\ body.o["data"].t = "obj"
    /\ "token" \in DOMAIN body.o["data"].o

\* the decoded object has a data.token that is a non-empty string
HasNonEmptyToken(body) ==
    /\ HasDataToken(body)
    /\ body.o["data"].o["token"].t = "str"
    /\ body.o["data"].o["token"].s # ""

LoginReturned(b) == done.op = "login" /\ done.out = ReturnBool(b)

LoginRaised(exc) == done.op = "login" /\ done.out.kind = "raise" /\ done.out.exc = exc

ListReturnedEmpty == done.op = "get_device_list" /\ done.out = ReturnMap(<<>>)

(***************************************************************************)
(* C1.  login() returns true if and only if the decoded login response     *)
(* has status == 200 and a non-empty data.token, and whenever it returns   *)
(* true the stored token is exactly that response's data.token.            *)
(* The code returns true for a status-200 response whose data object has   *)
(* no token, a null token or an empty token.                               *)
(***************************************************************************)
C1_LoginTrueIffStatus200AndToken ==
    done.op = "login" =>
        /\ LoginReturned(TRUE) <=>
              (DecodedObject(done.net) /\ Status200(done.net.body)
                  /\ HasNonEmptyToken(done.net.body))
        /\ LoginReturned(TRUE) =>
              (HasDataToken(done.net.body) /\ token = done.net.body.o["data"].o["token"])

(***************************************************************************)
(* C2.  login() raises MySmartBikeAuthException, carrying the response,    *)
(* whenever the decoded response has a status field whose value is not     *)
(* 200, whatever that value is (0 and the other falsy values included).    *)
(* The code returns false for a status that is 0 or null.                  *)
(***************************************************************************)
C2_LoginRaisesOnAnyOtherStatus ==
    (done.op = "login" /\ DecodedObject(done.net)
        /\ HasStatus(done.net.body) /\ ~Status200(done.net.body))
    => (LoginRaised("MySmartBikeAuthException") /\ done.out.arg = done.net.body)

(***************************************************************************)
(* C3.  login() returns false, and does not raise, when the request        *)
(* executor yields a response without a status field or no response.       *)
(***************************************************************************)
C3_LoginFalseWithoutStatus ==
    (done.op = "login"
        /\ (NoResponse(done.net)
            \/ (DecodedObject(done.net) /\ ~HasStatus(done.net.body))))
    => LoginReturned(FALSE)

\* login() has answered a response that has a data.token but no status
C3_Witness ==
    /\ done.op = "login"
    /\ DecodedObject(done.net)
    /\ ~HasStatus(done.net.body)
    /\ HasNonEmptyToken(done.net.body)
    /\ LoginReturned(FALSE)

(***************************************************************************)
(* C4.  get_device_list() returns an empty mapping and does not call the   *)
(* device mapper whenever the decoded response's status is not 200 (or     *)
(* there is none) or the request executor yields no response; so it does   *)
(* for a response that login() answers with MySmartBikeAuthException.      *)
(***************************************************************************)
C4_ListEmptyUnlessStatus200 ==
    (done.op = "get_device_list"
        /\ (NoResponse(done.net)
            \/ (DecodedObject(done.net) /\ ~Status200(done.net.body))))
    => (ListReturnedEmpty /\ ~done.mapped)

\* get_device_list() has answered a status-401 response that lists a device
C4_Witness ==
    /\ done.op = "get_device_list"
    /\ DecodedObject(done.net)
    /\ HasStatus(done.net.body)
    /\ done.net.body.o["status"] = JInt(401)
    /\ "data" \in DOMAIN done.net.body.o
    /\ Len(done.net.body.o["data"].a) = 1
    /\ ListReturnedEmpty

(***************************************************************************)
(* C5.  get_device_list() never raises on ordinary failure: when the list  *)
(* request ends in a transport failure or an HTTP non-2xx status it        *)
(* returns an empty mapping.                                               *)
(* The code calls _request without ignore_errors, so both exceptions       *)
(* leave get_device_list().                                                *)
(***************************************************************************)
C5_ListNeverRaisesOnOrdinaryFailure ==
    (done.op = "get_device_list" /\ OrdinaryFailure(done.net)) => ListReturnedEmpty

(***************************************************************************)
(* C6.  Token lifecycle: the stored token is the empty string until the    *)
(* first login() that returns true, and from then on it is the data.token  *)
(* of the latest login() that returned true; it is always a string, never  *)
(* null.                                                                   *)
(* After a login() that returned true on a response without a token (see   *)
(* C1) the stored token is None.                                           *)
(***************************************************************************)
C6_TokenLifecycle ==
    /\ token.t = "str"
    /\ ~lastGood.set => token = JStr("")
    /\ lastGood.set => token = lastGood.token

(***************************************************************************)
(* C7.  get_device_list() never triggers a login: a call sends exactly one *)
(* request, the list request with 'Bearer <stored token>', also when the   *)
(* stored token is empty, and no step of the call changes the stored token *)
(* or starts a login.                                                      *)
(***************************************************************************)
C7_ListRequest(stored) ==
    [method |-> "get",
     url |-> "API_BASE_URI/api/v1/objects/me?limit=5",
     authorization |-> "Bearer " \o (IF stored = None THEN "None" ELSE stored.s)]

C7_ListSendsOneRequestAndKeepsToken ==
    [][listTask' # listTask =>
         /\ token' = token
         /\ loginTask' = loginTask
         /\ listTask.pc = "idle" =>
              /\ listTask'.pc = "await"
              /\ Len(listTask'.requests) = 1
              /\ LET sent == listTask'.requests[1]
                 IN  [method |-> sent.method, url |-> sent.url,
                      authorization |-> sent.kwargs["headers"]["Authorization"]]
                        = C7_ListRequest(token)
         /\ listTask.pc = "await" => listTask'.pc = "idle"]_vars

\* get_device_list() was called with the empty token, no login has ever been
\* started, and the server has rejected the list request
C7_Witness ==
    /\ done.op = "get_device_list"
    /\ done.net.kind = "response"
    /\ done.net.code = 401
    /\ token = JStr("")
    /\ ~lastGood.set
    /\ loginTask = Idle

(***************************************************************************)
(* Vocabulary of the device mapper's properties.                           *)
(***************************************************************************)

\* the serial of an entry, None when it has none
SerialOf(entry) == IF "serial" \in DOMAIN entry.o THEN entry.o["serial"] ELSE None

\* the place of the last entry with the given serial
LastWithSerial(entries, serial) ==
    CHOOSE i \in 1..Len(entries) :
        /\ SerialOf(entries[i]) = serial
        /\ \A j \in (i + 1)..Len(entries) : SerialOf(entries[j]) # serial

\* the serials are pairwise distinct
DistinctSerials(entries) ==
    \A i, j \in 1..Len(entries) : i # j => SerialOf(entries[i]) # SerialOf(entries[j])

\* the value of key in the last node of the tree that has the key, None when
\* no node has it
LastValue(nodes, key) ==
    LET carrying == {i \in 1..Len(nodes) : key \in DOMAIN nodes[i].o}
    IN  IF carrying = {} THEN None
        ELSE nodes[CHOOSE i \in carrying : \A j \in carrying : j <= i].o[key]

\* the device mapper has run on a payload and returned a mapping
MapperReturned == done.op = "_build_device_list" /\ done.out.kind = "return"

(***************************************************************************)
(* C8.  For a payload of N entries with pairwise distinct serials the      *)
(* device mapper returns a mapping of exactly N keys, each key the serial  *)
(* of its record; when entries share a serial the mapping holds one record *)
(* for it, built from the last of them.                                    *)
(***************************************************************************)
C8_MappingKeyedBySerialLastWins ==
    MapperReturned =>
        LET entries == done.data.o["data"].a
            mapping == done.out.map
        IN  /\ DOMAIN mapping = {SerialOf(entries[i]) : i \in 1..Len(entries)}
            /\ \A key \in DOMAIN mapping : mapping[key].serial = key
            /\ DistinctSerials(entries) => Cardinality(DOMAIN mapping) = Len(entries)
            /\ \A key \in DOMAIN mapping :
                 mapping[key] = BuildDevice(entries[LastWithSerial(entries, key)], NothingFound).device

\* two different entries with the same serial have been mapped to one record
C8_Witness ==
    /\ MapperReturned
    /\ Len(done.data.o["data"].a) = 2
    /\ SerialOf(done.data.o["data"].a[1]) = SerialOf(done.data.o["data"].a[2])
    /\ done.data.o["data"].a[1] # done.data.o["data"].a[2]
    /\ Cardinality(DOMAIN done.out.map) = 1

(***************************************************************************)
(* C9.  stateOfCharge is the state_of_charge of the last object_tree node  *)
(* that has the key and remainingCapacity the remaining_capacity of the    *)
(* last node that has that key, each on its own; each is null when no node *)
(* of the entry has the key, whatever the entry before held.               *)
(***************************************************************************)
C9_LastNodeWinsPerKey ==
    MapperReturned =>
        LET entries == done.data.o["data"].a
            mapping == done.out.map
        IN  \A key \in DOMAIN mapping :
              LET nodes == entries[LastWithSerial(entries, key)].o["object_tree"].a
              IN  /\ mapping[key].state_of_charge = LastValue(nodes, "state_of_charge")
                  /\ mapping[key].remaining_capacity = LastValue(nodes, "remaining_capacity")

\* an entry whose tree names state_of_charge twice and remaining_capacity
\* once, in the first node, followed by an entry with an empty tree
C9_Witness ==
    /\ MapperReturned
    /\ Len(done.data.o["data"].a) = 2
    /\ done.data.o["data"].a[1].o["object_tree"].a = <<NodeBoth, NodeSoc>>
    /\ done.data.o["data"].a[2] = Entry(Serial(2), DateGood, <<>>)
    /\ done.out.map[JStr(Serial(1))].state_of_charge = JInt(80)
    /\ done.out.map[JStr(Serial(1))].remaining_capacity = JInt(20)
    /\ done.out.map[JStr(Serial(2))].state_of_charge = None

(***************************************************************************)
(* Vocabulary of C10: the entries of a status-200 list response.           *)
(***************************************************************************)

\* get_device_list() has answered a decoded status-200 response whose data
\* is an array
ListedDevices ==
    /\ done.op = "get_device_list"
    /\ DecodedObject(done.net)
    /\ Status200(done.net.body)
    /\ "data" \in DOMAIN done.net.body.o
    /\ done.net.body.o["data"].t = "arr"

\* the value is a text of the form YYYY-MM-DD HH:MM:SS
InDocumentedFormat(date) ==
    /\ date.t = "str"
    /\ Len(date.s) = 19
    /\ \A i \in 1..19 :
         CASE i \in {5, 8} -> date.s[i] = "-"
           [] i = 11 -> date.s[i] = " "
           [] i \in {14, 17} -> date.s[i] = ":"
           [] OTHER -> date.s[i] \in Digits

\* the entry has object_model.brand.alias
HasAlias(entry) ==
    /\ "object_model" \in DOMAIN entry.o
    /\ "brand" \in DOMAIN entry.o["object_model"].o
    /\ "alias" \in DOMAIN entry.o["object_model"].o["brand"].o

\* the entry lacks one of the fields the specification calls required
LacksRequiredField(entry) ==
    \/ "serial" \notin DOMAIN entry.o
    \/ "odometry" \notin DOMAIN entry.o
    \/ ~HasAlias(entry)
    \/ "model_name" \notin DOMAIN entry.o["object_model"].o

\* the entry lacks one of the fields the mapper reads by subscript
LacksSubscriptedField(entry) ==
    \/ "serial" \notin DOMAIN entry.o
    \/ "odometry" \notin DOMAIN entry.o
    \/ "object_tree" \notin DOMAIN entry.o
    \/ ~HasAlias(entry)

\* the entry has no last_position_date, or one that strptime rejects
HasRejectedDate(entry) ==
    \/ "last_position_date" \notin DOMAIN entry.o
    \/ strptime(entry.o["last_position_date"]).kind = "raise"

GivenOrNull(entry, key) ==
    IF key \in DOMAIN entry.o THEN entry.o[key] ELSE None

\* the date and time the texts of the sample entries name
NamedDateTime(text) ==
    IF text = DateGood THEN DateTime(2024, 1, 1, 10, 0, 0)
    ELSE IF text = DateUnpadded THEN DateTime(2024, 1, 1, 9, 5, 7)
    ELSE None

\* the record copies the fields of the entry
CopiedFrom(record, entry) ==
    /\ record.serial = entry.o["serial"]
    /\ record.odometry = entry.o["odometry"]
    /\ record.brand = entry.o["object_model"].o["brand"].o["alias"]
    /\ record.model = GivenOrNull(entry.o["object_model"], "model_name")
    /\ record.longitude = GivenOrNull(entry, "longitude")
    /\ record.latitude = GivenOrNull(entry, "latitude")
    /\ record.last_position_date = NamedDateTime(entry.o["last_position_date"])
    /\ record.state_of_charge = LastValue(entry.o["object_tree"].a, "state_of_charge")
    /\ record.remaining_capacity = LastValue(entry.o["object_tree"].a, "remaining_capacity")

C11_RecordCopiesItsOwnEntry ==
    MapperReturned =>
        LET entries == done.data.o["data"].a
        IN  \A key \in DOMAIN done.out.map :
                CopiedFrom(done.out.map[key], entries[LastWithSerial(entries, key)])

\* the spec's sample entry is mapped beside an entry that has no longitude
C11_Witness ==
    /\ MapperReturned
    /\ done.data.o["data"].a =
          << Entry(Serial(1), DateGood, <<NodeSoc>>), Without(BaseEntry, "longitude") >>
    /\ done.out.map[JStr(Serial(1))] =
          MySmartBikeDevice(JStr(Serial(1)), JInt(120), JStr("Acme"), JStr("X1"), JInt(7),
                            JInt(50), DateTime(2024, 1, 1, 10, 0, 0), JInt(80), None)
    /\ done.out.map[JStr(Serial(2))].longitude = None
    /\ done.out.map[JStr(Serial(2))].latitude = JInt(50)

(***************************************************************************)
(* C12.  Every request the request executor sends carries all seven fixed  *)
(* protocol headers (Accept, User-Agent, Accept-Language, X-Theme, X-App,  *)
(* X-Platform, X-Version) with their fixed values, whatever headers the    *)
(* caller supplied: the same keys with other values, other keys, or no     *)
(* headers at all.  Caller headers with other keys (Content-Type,          *)
(* Authorization) are sent unchanged.                                      *)
(***************************************************************************)

ProtocolHeaderNames ==
    {"Accept", "User-Agent", "Accept-Language", "X-Theme", "X-App", "X-Platform", "X-Version"}

\* the headers the caller of _request supplied
SuppliedHeaders(call) ==
    IF "headers" \in DOMAIN call.kwargs THEN call.kwargs["headers"] ELSE <<>>

\* the request executor has sent the request of a call
RequestSent == listTask.pc = "sent"

C12_FixedHeadersAlwaysSent ==
    RequestSent =>
        LET sent == listTask.requests[1].kwargs["headers"]
            supplied == SuppliedHeaders(listTask.call)
        IN  /\ DOMAIN FixedHeaders = ProtocolHeaderNames
            /\ \A name \in ProtocolHeaderNames :
                 name \in DOMAIN sent /\ sent[name] = FixedHeaders[name]
            /\ \A name \in DOMAIN supplied \ ProtocolHeaderNames :
                 name \in DOMAIN sent /\ sent[name] = supplied[name]
            /\ DOMAIN sent = ProtocolHeaderNames \cup DOMAIN supplied

\* a caller that set Accept, User-Agent and Authorization: the first two go
\* out with the fixed values, the third as supplied
C12_Witness ==
    /\ RequestSent
    /\ SuppliedHeaders(listTask.call) =
          [k \in {"Accept", "User-Agent", "Authorization"} |-> CallerValue(k)]
    /\ listTask.requests[1].kwargs["headers"]["Accept"] = "application/json"
    /\ listTask.requests[1].kwargs["headers"]["User-Agent"] = "API_USER_AGENT"
    /\ listTask.requests[1].kwargs["headers"]["Authorization"] = "Bearer tok1"

(***************************************************************************)
(* C13, as claimed.  Error classification is ordered by specificity when   *)
(* errors are not ignored: an HTTP-response-level error (non-2xx on the    *)
(* validated path) always surfaces as AuthError and never as ClientError,  *)
(* although it is also a kind of transport error; any other transport or   *)
(* connection error surfaces as ClientError and never as AuthError; so     *)
(* login() surfaces AuthError to its caller on an HTTP non-2xx status.     *)
(* The code lets a 3xx status pass: raise_for_status raises from 400 on.   *)
(***************************************************************************)

\* a call of the session client has completed on the transport's answer
ClientCallDone == done.op \in {"login", "get_device_list"}

\* the completed call raised an exception of the class exc to its caller
Surfaced(exc) == done.out.kind = "raise" /\ done.out.exc = exc

\* the transport failed below the level of HTTP responses
TransportError(net) == net.kind = "ClientError"

C13_Non2xxIsAuthError ==
    ClientCallDone =>
        /\ (done.net.kind = "response" /\ ~(done.net.code \in 200..299))
              => Surfaced("MySmartBikeAuthException")
        /\ TransportError(done.net) => Surfaced("ClientError")

(***************************************************************************)
(* C13, as the code has it.  When errors are not ignored, an HTTP status   *)
(* of 400 or above on the validated path always surfaces as AuthError and  *)
(* never as ClientError; any other transport or connection error surfaces  *)
(* as ClientError and never as AuthError; so login() surfaces AuthError to *)
(* its caller on an HTTP status of 400 or above.                           *)
(***************************************************************************)
C13_HttpErrorIsAuthError ==
    ClientCallDone =>
        /\ (done.net.kind = "response" /\ done.net.code >= 400)
              => Surfaced("MySmartBikeAuthException")
        /\ TransportError(done.net) => Surfaced("ClientError")

\* login() has raised AuthError on an HTTP 401
C13_Witness ==
    /\ done.op = "login"
    /\ done.net.kind = "response"
    /\ done.net.code = 401
    /\ Surfaced("MySmartBikeAuthException")

(***************************************************************************)
(* C14.  With ignore_errors set the request executor never raises: for     *)
(* every kind of failure (HTTP-level error, transport error, any other     *)
(* unexpected failure) it returns None.  Without ignore_errors an          *)
(* HTTP-level error and a transport error raise, and only a failure that   *)
(* is neither returns None.                                                *)
(***************************************************************************)

\* a call of the request executor has completed on the transport's answer
RequestDone == done.op = "_request"

\* the request went the validated way: the caller gave no "url" argument
Validated(call) == "url" \notin DOMAIN call.kwargs

\* the response has a status that the validation rejects
HttpLevelError(call, net) ==
    net.kind = "response" /\ Validated(call) /\ net.code >= 400

\* a failure that is neither of the two: a timeout, or a response that passes
\* (or skips) the validation and has a body that is no JSON
UnclassifiedFailure(call, net) ==
    \/ net.kind = "Exception"
    \/ net.kind = "response" /\ ~HttpLevelError(call, net) /\ net.body = Undecodable

AnyFailure(call, net) ==
    HttpLevelError(call, net) \/ TransportError(net) \/ UnclassifiedFailure(call, net)

C14_IgnoreErrorsNeverRaises ==
    RequestDone =>
        /\ done.call.ignore_errors =>
              /\ done.out.kind = "return"
              /\ AnyFailure(done.call, done.net) => done.out = ReturnJson(None)
        /\ ~done.call.ignore_errors =>
              /\ HttpLevelError(done.call, done.net) => Surfaced("MySmartBikeAuthException")
              /\ TransportError(done.net) => Surfaced("ClientError")
              /\ UnclassifiedFailure(done.call, done.net) => done.out = ReturnJson(None)
              /\ done.out.kind = "raise" =>
                    HttpLevelError(done.call, done.net) \/ TransportError(done.net)

\* the request executor has returned None for a transport error it was told
\* to ignore
C14_Witness ==
    /\ RequestDone
    /\ done.call.ignore_errors
    /\ TransportError(done.net)
    /\ done.out = ReturnJson(None)

(***************************************************************************)
(* C15.  A failure during a request that is neither an HTTP-level error    *)
(* nor a transport error (a body that is no JSON, a timeout) is swallowed  *)
(* by the request executor, which returns None whether or not              *)
(* ignore_errors is set; login() then returns false and get_device_list()  *)
(* returns an empty mapping, neither raises, and the stored token is as it *)
(* was.                                                                    *)
(***************************************************************************)

\* this step is the end of a login() whose request failed that way
LoginEndsUnclassified ==
    /\ loginTask.pc = "await"
    /\ loginTask'.pc = "idle"
    /\ done'.op = "login"
    /\ UnclassifiedFailure(loginTask.requests[1], done'.net)

\* this step is the end of a get_device_list() whose request failed that way
ListEndsUnclassified ==
    /\ listTask.pc = "await"
    /\ listTask'.pc = "idle"
    /\ done'.op = "get_device_list"
    /\ UnclassifiedFailure(listTask.requests[1], done'.net)

C15_UnclassifiedFailureIsSwallowed ==
    [][ /\ LoginEndsUnclassified =>
              /\ \A ignore_errors \in BOOLEAN :
                    Classify(loginTask.requests[1], ignore_errors, done'.net) = ReturnJson(None)
              /\ done'.out = ReturnBool(FALSE)
              /\ token' = token
        /\ ListEndsUnclassified =>
              /\ \A ignore_errors \in BOOLEAN :
                    Classify(listTask.requests[1], ignore_errors, done'.net) = ReturnJson(None)
              /\ done'.out = ReturnMap(<<>>)
              /\ token' = token
      ]_vars

\* a login() whose response body was no JSON has returned false, and the
\* token of the successful login before it is still stored
C15_Witness ==
    /\ done.op = "login"
    /\ done.net = HttpResponse(200, Undecodable)
    /\ done.out = ReturnBool(FALSE)
    /\ lastGood.set
    /\ lastGood.token = JStr("tok1")
    /\ token = JStr("tok1")

(***************************************************************************)
(* C16.  Session handling across any sequence of requests: a request is    *)
(* never sent through an absent or closed session; if the held session is  *)
(* absent or closed when a request starts, it is replaced by one obtained  *)
(* from the host before the request is sent; a held session that is open   *)
(* is never replaced; and the core itself never closes a session.          *)
(***************************************************************************)

\* this step sends a request: a coroutine goes from idle to its await
SendsRequest ==
    \/ loginTask.pc = "idle" /\ loginTask'.pc = "await"
    \/ listTask.pc = "idle" /\ listTask'.pc = "await"

\* this step is one of the session client, not of the host
ClientStep == loginTask' # loginTask \/ listTask' # listTask

\* the held session can carry a request
Usable(held) == held \in {"open", "host"}

C16_SessionHandling ==
    [][ /\ SendsRequest =>
              /\ Usable(session')
              /\ ~Usable(session) => session' = "host"
              /\ Usable(session) => session' = session
        /\ (ClientStep /\ ~SendsRequest) => session' = session
        /\ ClientStep => (session' = "closed" => session = "closed")
      ]_vars

\* the list request has gone out through a session taken from the host,
\* after a login() that completed
C16_Witness ==
    /\ session = "host"
    /\ listTask.pc = "await"
    /\ done.op = "login"

(***************************************************************************)
(* C17.  A login() that does not succeed, whether it returns false or      *)
(* raises AuthError or ClientError, leaves the stored token exactly as it  *)
(* was before the call: the token of an earlier successful login stays in  *)
(* use after a later failed login.                                         *)
(***************************************************************************)

\* this step is the end of a login() that did not return true
LoginEndsWithoutSuccess ==
    /\ loginTask.pc = "await"
    /\ loginTask'.pc = "idle"
    /\ done'.op = "login"
    /\ done'.out # ReturnBool(TRUE)

C17_FailedLoginKeepsToken ==
    [][LoginEndsWithoutSuccess => token' = token]_vars

\* a login() has raised AuthError, and the token of the successful login
\* before it is still stored
C17_Witness ==
    /\ done.op = "login"
    /\ Surfaced("MySmartBikeAuthException")
    /\ lastGood.set
    /\ lastGood.token = JStr("tok1")
    /\ token = JStr("tok1")

(***************************************************************************)
(* C18.  When login() and get_device_list() are interleaved on one         *)
(* instance, the Authorization header of the list request carries the      *)
(* token that was stored when get_device_list() was called: a list call    *)
(* begun before a concurrent login completes goes out with the old,        *)
(* possibly empty, token, and the token that login() writes later never    *)
(* alters a request that is already in flight.  Nothing serializes the two *)
(* calls, so two requests can be in flight at once.                        *)
(***************************************************************************)

\* the Authorization header of the list request in flight
SentAuthorization(task) == task.requests[1].kwargs["headers"]["Authorization"]

C18_ListRequestKeepsTokenOfItsCall ==
    [][ /\ (listTask.pc = "idle" /\ listTask'.pc = "await") =>
              SentAuthorization(listTask') = "Bearer " \o PyStr(token)
        /\ (listTask.pc = "await" /\ listTask'.pc = "await") => listTask' = listTask
        /\ (listTask.pc = "await" /\ token' # token) => listTask' = listTask
      ]_vars

\* a login() has completed and stored "tok1" while the list request, sent
\* with the empty token, is still in flight
C18_Witness ==
    /\ listTask.pc = "await"
    /\ SentAuthorization(listTask) = "Bearer "
    /\ loginTask.pc = "idle"
    /\ done.op = "login"
    /\ done.out = ReturnBool(TRUE)
    /\ token = JStr("tok1")

====
